---------------------------- MODULE Spec2Model ----------------------------
(***************************************************************************)
(* A model of the hdarrrr exposure-fusion / tone-mapping engine.           *)
(*                                                                         *)
(* The repository holds several snapshots of the engine.  Three of them    *)
(* define HDRProcessor.Process and are modelled side by side, selected by  *)
(* the variable `variant`:                                                 *)
(*   "average"  src/internal/processor/hdr.go   plain mean of N exposures  *)
(*   "weighted" src/unnamed/part_007            brightness-weighted mean,  *)
(*                                              validateImageSize first    *)
(*   "three"    src/README.md (lines 62-195)    exactly three exposures,   *)
(*                                              mergeExposures / weight    *)
(*                                                                         *)
(* float64 values are modelled as exact rationals <<num, den>> in lowest   *)
(* terms (den > 0); a division by zero yields <<s, 0>> with s the sign of  *)
(* the numerator, the model's counterpart of +Inf, -Inf and NaN.  Rounding *)
(* of float64 arithmetic is not modelled.                                  *)
(***************************************************************************)
EXTENDS Integers, Sequences, FiniteSets, TLC

VARIABLES
    variant,     \* which snapshot of the engine runs
    toneMapper,  \* HDRProcessor.toneMapper
    params,      \* HDRProcessor.params
    pc,          \* position inside Process ("idle" between calls)
    images,      \* the argument of the running Process call
    hdrImages,   \* Process local: the converted exposures
    merged,      \* Process local: the radiance map (NoMap until allocated)
    result,      \* the image Process returned (Nil if none)
    err,         \* the error Process returned (NoErr if none), or Panic
    pixelsRead,  \* number of pixel reads the running call has made
    expo,        \* pixel-level merge: the exposures' radiance triples
    fused,       \* pixel-level merge: the merged triple (NotYet before)
    fnArg,       \* scalar functions: the pair of inputs
    fnOut,       \* scalar functions: the record of outputs (<< >> before)
    listArg,     \* functions of exposure lists: the list handed in
    listOut,     \* functions of exposure lists: what came back (<< >> before)
    cliMain,     \* command line: which snapshot of main runs
    cliLoader,   \* command line: which snapshot of imaging.LoadImages runs
    cliArgs,     \* command line: the parsed flags
    cliPc,       \* command line: position inside main ("off" if not run)
    cliImages,   \* command line: main's local `images`
    cliAligned,  \* command line: main's local `alignedImages`
    cliAlignErr, \* command line: the error align.AlignImages returned
    cliOutput,   \* command line: main's local `output`
    cliTrace,    \* command line: the stages completed so far, in order
    cliExit,     \* command line: the exit status (Running until exit)
    disk,        \* file system: what each output path holds
    procs,       \* constructed processors: name and address of the params map
    heap,        \* the params maps, by address
    imageData,   \* GUI: the three image slots
    mu,          \* GUI: the goroutine holding the mutex (Unlocked if none)
    progress,    \* GUI: progress.Value
    guiPc,       \* GUI: the position of each goroutine
    guiLocal,    \* GUI: the locals of each goroutine
    guiShown,    \* GUI: the dialog shown last (NoDialog before the first)
    guiSaved     \* GUI: whether saveImage has created hdr_result.jpg

procVars  == <<variant, toneMapper, params, pc, images, hdrImages, merged,
               result, err, pixelsRead>>
mergeVars == <<expo, fused>>
fnVars    == <<fnArg, fnOut>>
listVars  == <<listArg, listOut>>
cliVars   == <<cliMain, cliLoader, cliArgs, cliPc, cliImages, cliAligned,
               cliAlignErr, cliOutput, cliTrace, cliExit>>
fsVars    == <<disk>>
objVars   == <<procs, heap>>
guiVars   == <<imageData, mu, progress, guiPc, guiLocal, guiShown, guiSaved>>
otherVars == <<fsVars, objVars, guiVars>>
vars      == <<procVars, mergeVars, fnVars, listVars, cliVars, otherVars>>

---------------------------------------------------------------------------
(* Bounds of the model *)

MaxImages == 4   \* longest exposure list handed to Process
Half      == 2   \* scalar inputs lie on the grid k / (2 * Half)

---------------------------------------------------------------------------
(* Exact rational arithmetic standing in for float64 *)

Abs(n) == IF n < 0 THEN -n ELSE n

Sign(n) == IF n < 0 THEN -1 ELSE IF n > 0 THEN 1 ELSE 0

RECURSIVE GCD(_, _)
GCD(a, b) == IF b = 0 THEN a ELSE GCD(b, a % b)

Rat(n, d) ==
    IF d = 0 THEN <<Sign(n), 0>>
    ELSE LET g == GCD(Abs(n), Abs(d))
             s == IF d < 0 THEN -1 ELSE 1
         IN  <<s * (n \div g), s * (d \div g)>>

RInt(n) == <<n, 1>>

RAdd(a, b) ==
    IF a[2] = 0 THEN a
    ELSE IF b[2] = 0 THEN b
    ELSE LET g == GCD(a[2], b[2])
         IN  Rat(a[1] * (b[2] \div g) + b[1] * (a[2] \div g),
                 (a[2] \div g) * b[2])

RNeg(a) == <<-a[1], a[2]>>

RSub(a, b) == RAdd(a, RNeg(b))

RMul(a, b) ==
    IF a[2] = 0 \/ b[2] = 0 THEN <<Sign(a[1]) * Sign(b[1]), 0>>
    ELSE LET g1 == GCD(Abs(a[1]), b[2])
             g2 == GCD(Abs(b[1]), a[2])
         IN  Rat((a[1] \div g1) * (b[1] \div g2),
                 (a[2] \div g2) * (b[2] \div g1))

RDiv(a, b) ==
    IF b[1] = 0 THEN <<Sign(a[1]), 0>>
    ELSE IF b[1] < 0 THEN RMul(a, <<-b[2], -b[1]>>)
    ELSE RMul(a, <<b[2], b[1]>>)

RLess(a, b) == a[1] * b[2] < b[1] * a[2]

RLeq(a, b) == a[1] * b[2] <= b[1] * a[2]

RMax(a, b) == IF RLess(a, b) THEN b ELSE a

RFinite(a) == a[2] > 0

Zero    == RInt(0)
One     == RInt(1)
OneHalf == Rat(1, 2)

---------------------------------------------------------------------------
(* Scalar functions: the weight of an exposure and the Reinhard operator *)

\* weight without the clamp to [0,1]
weightUnclamped(v) ==
    LET t == RSub(RMul(RInt(2), v), One) IN RSub(One, RMul(t, t))

\* HDRProcessor.weight: a bump centred on mid-exposure, zero at the extremes
weight(v) ==
    IF RLeq(v, Zero) \/ RLeq(One, v) THEN Zero
    ELSE LET t == RSub(RMul(RInt(2), v), One) IN RSub(One, RMul(t, t))

\* the Reinhard operator without the clamp of negative inputs
ToneMapUnclamped(v) == RDiv(v, RAdd(One, v))

\* ReinhardToneMapper.ToneMap: clamp negatives to 0, then v / (1 + v)
ReinhardToneMap(v) ==
    LET c == RMax(Zero, v) IN RDiv(c, RAdd(One, c))

\* NewDragoToneMapper(ldMax, b) of tonemap.go: the fields as given
NewDragoToneMapper(ldMax, b) == [LdMax |-> ldMax, B |-> b]

\* DragoToneMapper.ToneMap of tonemap.go: clamp negatives to 0, then
\* (LdMax * (v * (1 + v / (B * B)))) / (1 + v)
DragoToneMap(t, v) ==
    LET c == RMax(Zero, v)
    IN  RDiv(RMul(t.LdMax, RMul(c, RAdd(One, RDiv(c, RMul(t.B, t.B))))),
             RAdd(One, c))

\* the mapper the tests build: NewDragoToneMapper(100.0, 0.85)
TestDragoToneMapper == NewDragoToneMapper(RInt(100), Rat(17, 20))

---------------------------------------------------------------------------
(* Pixel samples and their conversion to radiance *)

FullScale == 65535   \* 0xffff, the largest value color.Color.RGBA() returns

\* float64(r) / 0xffff of convertToHDR, float64(r1)/65535 of Process
ToRadiance(s) == Rat(s, FullScale)

RadianceOf(px) == <<ToRadiance(px[1]), ToRadiance(px[2]), ToRadiance(px[3])>>

ZeroPixel == <<Zero, Zero, Zero>>

RECURSIVE RSum(_)
RSum(s) == IF s = <<>> THEN Zero ELSE RAdd(Head(s), RSum(Tail(s)))

---------------------------------------------------------------------------
(* The three merge algorithms, applied to the exposures of one pixel.     *)
(* `e` is the sequence of the exposures' radiance triples at that pixel.  *)

\* merge that divides by the number of exposures instead of the weight sum
mergeExposuresByCount(v1, v2, v3) ==
    LET w1 == weight(v1)
        w2 == weight(v2)
        w3 == weight(v3)
        sumWeights == RAdd(RAdd(w1, w2), w3)
    IN  IF sumWeights = Zero THEN Zero
        ELSE RDiv(RAdd(RAdd(RMul(v1, w1), RMul(v2, w2)), RMul(v3, w3)),
                  RInt(3))

\* merge without the guard against a zero weight sum
mergeExposuresUnguarded(v1, v2, v3) ==
    LET w1 == weight(v1)
        w2 == weight(v2)
        w3 == weight(v3)
        sumWeights == RAdd(RAdd(w1, w2), w3)
    IN  RDiv(RAdd(RAdd(RMul(v1, w1), RMul(v2, w2)), RMul(v3, w3)),
             sumWeights)

\* HDRProcessor.mergeExposures of the three-exposure snapshot
mergeExposures(v1, v2, v3) ==
    LET w1 == weight(v1)
        w2 == weight(v2)
        w3 == weight(v3)
        sumWeights == RAdd(RAdd(w1, w2), w3)
    IN  IF sumWeights = Zero THEN Zero
        ELSE RDiv(RAdd(RAdd(RMul(v1, w1), RMul(v2, w2)), RMul(v3, w3)),
                  sumWeights)

\* the per-pixel body of the merge loop of the three-exposure Process
MergeThree(e) ==
    <<mergeExposures(e[1][1], e[2][1], e[3][1]),
      mergeExposures(e[1][2], e[2][2], e[3][2]),
      mergeExposures(e[1][3], e[2][3], e[3][3])>>

\* a merge loop that forgets the division by the number of exposures
MergeAverageUndivided(e) ==
    LET chan(c) == RSum([i \in 1..Len(e) |-> e[i][c]])
    IN  <<chan(1), chan(2), chan(3)>>

\* the per-pixel body of the merge loop of hdr.go: sum / n per channel
MergeAverage(e) ==
    LET n == RInt(Len(e))
        chan(c) == RSum([i \in 1..Len(e) |-> e[i][c]])
    IN  <<RDiv(chan(1), n), RDiv(chan(2), n), RDiv(chan(3), n)>>

\* math.Exp(-x) for a rational x >= 0, as a fixed-point number with four
\* decimals (Taylor series, terms truncated towards zero)
RECURSIVE ExpSeries(_, _, _, _)
ExpSeries(xf, k, term, acc) ==
    IF k > 12 THEN acc
    ELSE LET t == (term * xf) \div (10000 * k)
         IN  ExpSeries(xf, k + 1, t,
                       IF k % 2 = 1 THEN acc - t ELSE acc + t)

ExpNeg(x) == Rat(ExpSeries((x[1] * 10000) \div x[2], 1, 10000, 10000), 10000)

\* HDRProcessor.calculateWeight: exp(-(v - 0.5)^2 * 4)
calculateWeight(v) ==
    LET diff == RSub(v, OneHalf)
    IN  ExpNeg(RMul(RMul(diff, diff), RInt(4)))

\* (r + g + b) / 3.0
Brightness(t) == RDiv(RAdd(RAdd(t[1], t[2]), t[3]), RInt(3))

\* the per-pixel body of the merge loop of the brightness-weighted Process
MergeWeighted(e) ==
    LET w(i) == calculateWeight(Brightness(e[i]))
        sumWeight == RSum([i \in 1..Len(e) |-> w(i)])
        chan(c) == RSum([i \in 1..Len(e) |-> RMul(e[i][c], w(i))])
    IN  IF RLess(Zero, sumWeight)
        THEN <<RDiv(chan(1), sumWeight), RDiv(chan(2), sumWeight),
               RDiv(chan(3), sumWeight)>>
        ELSE ZeroPixel

MergePixel(v, e) ==
    CASE v = "average"  -> MergeAverage(e)
      [] v = "weighted" -> MergeWeighted(e)
      [] v = "three"    -> MergeThree(e)

---------------------------------------------------------------------------
(* Images *)

Nil == [kind |-> "nil"]

Pixels(b) == (0 .. b[1] - 1) \X (0 .. b[2] - 1)

\* an image.Image that is no hdr.Image: At(x, y).RGBA() yields pix[<<x, y>>]
LDR(b, cm, pix) == [kind |-> "ldr", bounds |-> b, cm |-> cm, pix |-> pix]

\* an hdr.Image: HDRAt(x, y).HDRRGBA() yields rad[<<x, y>>]
HDR(b, rad) == [kind |-> "hdr", bounds |-> b, cm |-> "hdrcolor.RGB", rad |-> rad]

Third     == <<21845, 21845, 21845>>   \* 8-bit value 85
TwoThirds == <<43690, 43690, 43690>>   \* 8-bit value 170
Black     == <<0, 0, 0>>
White     == <<FullScale, FullScale, FullScale>>
Orange    == <<FullScale, 21845, 0>>

ImgA == LDR(<<1, 1>>, "RGBA", [p \in Pixels(<<1, 1>>) |-> Third])
ImgB == LDR(<<2, 1>>, "RGBA",
            [p \in Pixels(<<2, 1>>) |-> IF p[1] = 0 THEN Orange ELSE White])
ImgG == LDR(<<1, 1>>, "Gray16", [p \in Pixels(<<1, 1>>) |-> TwoThirds])

\* the exposures handed to Process are decoded files: none is an hdr.Image
ImageSet == {ImgA, ImgB, ImgG}

RECURSIVE ListsUpTo(_)
ListsUpTo(n) ==
    IF n = 0 THEN {<<>>}
    ELSE LET shorter == ListsUpTo(n - 1)
         IN  shorter \cup
             {Append(l, x) : l \in {m \in shorter : Len(m) = n - 1},
                             x \in ImageSet \cup {Nil}}

\* createTestImage(width, height, value) of the processor tests: a solid
\* RGBA image; color.RGBA{value, ...}.RGBA() yields value * 0x101
createTestImage(width, height, value) ==
    LDR(<<width, height>>, "RGBA",
        [p \in Pixels(<<width, height>>) |->
            <<value * 257, value * 257, value * 257>>])

Dark   == createTestImage(2, 2, 50)
Mid    == createTestImage(2, 2, 128)
Bright == createTestImage(2, 2, 200)

\* the bracketed exposures of the tests, in every order and repetition
SolidLists == {<<a, b, c>> : a \in {Dark, Mid, Bright},
                             b \in {Dark, Mid, Bright},
                             c \in {Dark, Mid, Bright}}

\* images at the size limit of iCAM06 and one pixel below it each way
Big    == createTestImage(32, 32, 128)
Narrow == createTestImage(31, 32, 128)
Short  == createTestImage(32, 31, 128)

\* lists that reach the size check with a first image at or below the
\* limit; the second image differs in size, so no such list is merged
SizedLists == {<<Big, ImgA>>, <<Narrow, ImgA>>, <<Short, ImgA>>}

ImageLists == ListsUpTo(MaxImages) \cup SolidLists \cup SizedLists

Dx(img) == img.bounds[1]
Dy(img) == img.bounds[2]

\* reads outside an image's bounds yield the zero colour
HDRAt(img, p) == IF p \in DOMAIN img.rad THEN img.rad[p] ELSE ZeroPixel

At(img, p) == IF p \in DOMAIN img.pix THEN img.pix[p] ELSE Black

NumPixels(img) == Cardinality(Pixels(img.bounds))

---------------------------------------------------------------------------
(* The processor's configuration *)

Variants == {"average", "weighted", "three"}

SupportedToneMappers(v) ==
    CASE v = "average"  -> {"reinhard05", "drago03"}
      [] v = "weighted" -> {"reinhard05", "drago03", "linear", "logarithmic",
                            "durand", "custom_reinhard05", "icam06"}
      [] v = "three"    -> {"ReinhardToneMapper"}

Names == {"reinhard05", "drago03", "linear", "logarithmic", "durand",
          "custom_reinhard05", "icam06", "bogus"}

\* tone-mapping parameters are rationals
DefaultParams(v) ==
    CASE v = "average"  ->
           [k \in {"gamma", "intensity", "light"} |->
               IF k = "light" THEN Zero ELSE One]
      [] v = "weighted" ->
           [k \in {"gamma", "intensity", "light", "saturation", "contrast",
                   "chromatic"} |->
               CASE k \in {"gamma", "intensity"} -> One
                 [] k \in {"light", "chromatic"} -> Zero
                 [] k = "saturation" -> Rat(4, 5)
                 [] k = "contrast" -> RInt(4)]
      [] v = "three"    -> << >>

ParamUpdates == {[k \in {"gamma", "bias"} |-> RInt(2)]}

\* for k, v := range params { p.params[k] = v }
MergeParams(old, new) ==
    [k \in DOMAIN old \cup DOMAIN new |->
        IF k \in DOMAIN new THEN new[k] ELSE old[k]]

NoErr == "none"

NoMap == [allocated |-> FALSE, bounds |-> <<0, 0>>, pix |-> << >>]

---------------------------------------------------------------------------
(* Helpers of Process *)

MinICamSize == 32

Min(S) == CHOOSE x \in S : \A y \in S : x <= y

\* an entry check that is missing from the N-exposure Process
TooFewUnchecked(v, imgs) ==
    IF v = "three" THEN Len(imgs) # 3 ELSE FALSE

\* the entry check of Process: len(images) < 2, or len(images) != 3
TooFew(v, imgs) ==
    IF v = "three" THEN Len(imgs) # 3 ELSE Len(imgs) < 2

EntryError(v) == IF v = "three" THEN "ExactlyThree" ELSE "InsufficientCount"

\* a size check that looks at the width only
validateImageSizeWidthOnly(mapper, img) ==
    IF img = Nil THEN "panic"
    ELSE IF mapper = "icam06" /\ Dx(img) < MinICamSize
    THEN "ImageTooSmall"
    ELSE NoErr

\* HDRProcessor.validateImageSize: NoErr, an error, or "panic"
validateImageSize(mapper, img) ==
    IF img = Nil THEN "panic"
    ELSE IF mapper = "icam06" /\ (Dx(img) < MinICamSize \/ Dy(img) < MinICamSize)
    THEN "ImageTooSmall"
    ELSE NoErr

\* a nil check that forgets the last element of the list
NilIndexSkipLast(imgs) ==
    LET nils == {i \in 1 .. Len(imgs) - 1 : imgs[i] = Nil}
    IN  IF nils = {} THEN 0 ELSE Min(nils)

\* the index of the first nil element met by the conversion loop, 0 if none
NilIndex(imgs) ==
    LET nils == {i \in 1 .. Len(imgs) : imgs[i] = Nil}
    IN  IF nils = {} THEN 0 ELSE Min(nils)

\* a conversion that allocates a square image of the input's width
convertToHDRSquare(img) ==
    HDR(<<img.bounds[1], img.bounds[1]>>,
        [p \in Pixels(<<img.bounds[1], img.bounds[1]>>) |->
            RadianceOf(At(img, p))])

\* convertToHDR: same bounds, each sample divided by 0xffff
convertToHDR(img) ==
    HDR(img.bounds, [p \in Pixels(img.bounds) |-> RadianceOf(At(img, p))])

\* the loop body of Process: hdr.Image inputs are used as they are
ToHDR(img) == IF img.kind = "hdr" THEN img ELSE convertToHDR(img)

\* pixel reads made by converting the first n elements of imgs
RECURSIVE ConvertReads(_, _)
ConvertReads(imgs, n) ==
    IF n = 0 THEN 0
    ELSE ConvertReads(imgs, n - 1) +
         (IF imgs[n] # Nil /\ imgs[n].kind = "ldr" THEN NumPixels(imgs[n]) ELSE 0)

\* a validation whose loop starts one element too late
validateImagePropertiesSkipSecond(imgs) ==
    IF Len(imgs) < 2 THEN "InsufficientCount"
    ELSE IF imgs[1] = Nil THEN "panic"
    ELSE LET bad == {i \in 3 .. Len(imgs) :
                        imgs[i] = Nil \/ imgs[i].bounds # imgs[1].bounds}
         IN  IF bad = {} THEN NoErr
             ELSE IF imgs[Min(bad)] = Nil THEN "NilImage"
             ELSE "DimensionMismatch"

\* validateImageProperties of hdr.go: bounds only
validateImageProperties(imgs) ==
    IF Len(imgs) < 2 THEN "InsufficientCount"
    ELSE IF imgs[1] = Nil THEN "panic"
    ELSE LET bad == {i \in 2 .. Len(imgs) :
                        imgs[i] = Nil \/ imgs[i].bounds # imgs[1].bounds}
         IN  IF bad = {} THEN NoErr
             ELSE IF imgs[Min(bad)] = Nil THEN "NilImage"
             ELSE "DimensionMismatch"

\* validateImageProperties of the three-exposure snapshot: bounds, then
\* colour model, and no nil check (a nil element panics in img.Bounds())
validateImagePropertiesThree(imgs) ==
    IF Len(imgs) < 2 THEN "InsufficientCount"
    ELSE IF imgs[1] = Nil THEN "panic"
    ELSE LET bad == {i \in 2 .. Len(imgs) :
                        \/ imgs[i] = Nil
                        \/ imgs[i].bounds # imgs[1].bounds
                        \/ imgs[i].cm # imgs[1].cm}
         IN  IF bad = {} THEN NoErr
             ELSE LET i == Min(bad)
                  IN  IF imgs[i] = Nil THEN "panic"
                      ELSE IF imgs[i].bounds # imgs[1].bounds
                      THEN "DimensionMismatch"
                      ELSE "ColorModelMismatch"

\* align.AlignImages: the input itself, or an error
AlignImages(imgs) ==
    IF Len(imgs) < 2 THEN "InsufficientCount"
    ELSE IF imgs[1] = Nil THEN "panic"
    ELSE LET bad == {i \in 2 .. Len(imgs) :
                        imgs[i] = Nil \/ imgs[i].bounds # imgs[1].bounds}
         IN  IF bad = {} THEN NoErr
             ELSE IF imgs[Min(bad)] = Nil THEN "NilImage"
             ELSE "DimensionMismatch"

\* the radiance triples the merge loop reads at pixel p
ExposuresAt(v, imgs, p) ==
    [i \in 1 .. Len(imgs) |->
        IF v = "three" THEN RadianceOf(At(imgs[i], p)) ELSE HDRAt(imgs[i], p)]

\* uint8(r) * 255: the conversion applied before the scaling
QuantizeBeforeScaling(r) == (r[1] \div r[2]) * 255

\* uint8(r * 255) for r in [0, 1)
Quantize(r) == LET x == RMul(r, RInt(255)) IN x[1] \div x[2]

\* the tone-mapping loop of the three-exposure Process
ToneMapImage(m) ==
    [kind |-> "ldr", bounds |-> m.bounds, cm |-> "RGBA",
     pix |-> [p \in Pixels(m.bounds) |->
                <<Quantize(ReinhardToneMap(m.pix[p][1])),
                  Quantize(ReinhardToneMap(m.pix[p][2])),
                  Quantize(ReinhardToneMap(m.pix[p][3]))>>],
     alpha |-> [p \in Pixels(m.bounds) |-> 255]]

\* the parameter keys the switch of Process reads for each operator
UsedKeys(mapper) ==
    CASE mapper \in {"reinhard05", "custom_reinhard05"} ->
             {"intensity", "light", "gamma"}
      [] mapper = "drago03" -> {"gamma"}
      [] mapper = "durand"  -> {"saturation"}
      [] mapper = "icam06"  -> {"gamma", "contrast", "chromatic"}
      [] OTHER              -> {}

\* p.params[k]: the stored value, or float64's zero value for a missing key
Lookup(ps, k) == IF k \in DOMAIN ps THEN ps[k] ELSE Zero

\* the operator is handed the whole parameter bag
OperatorArgsWholeBag(mapper, ps) == ps

\* the arguments the switch of Process passes to the operator's constructor
OperatorArgs(mapper, ps) == [k \in UsedKeys(mapper) |-> Lookup(ps, k)]

\* tm.Perform() of the tmo package: an image over the bounds of the merged
\* radiance map, determined by the operator, its arguments and the map (its
\* pixel values are computed outside this repository)
Perform(mapper, ps, m) ==
    [kind |-> "ldr", bounds |-> m.bounds, cm |-> "RGBA64", op |-> mapper,
     args |-> OperatorArgs(mapper, ps), of |-> m.pix]

---------------------------------------------------------------------------
(* Process, one action per stage *)

IdleLocals ==
    /\ images = << >>
    /\ hdrImages = << >>
    /\ merged = NoMap
    /\ result = Nil
    /\ err = NoErr
    /\ pixelsRead = 0

MergeIdle == expo = << >> /\ fused = << >>

FnIdle == fnArg = << >> /\ fnOut = << >>

ListIdle == listArg = << >> /\ listOut = << >>

Running == -1

\* main is not run
CliIdle ==
    /\ cliMain = "none"
    /\ cliLoader = "none"
    /\ cliArgs = << >>
    /\ cliPc = "off"
    /\ cliImages = << >>
    /\ cliAligned = << >>
    /\ cliAlignErr = NoErr
    /\ cliOutput = Nil
    /\ cliTrace = << >>
    /\ cliExit = Running

\* no file is written
FsIdle == disk = << >>

\* no further processor is constructed
ObjIdle == procs = << >> /\ heap = << >>

Unlocked == <<"none", 0>>       \* sync.Mutex in its zero state

\* the window is not opened
GuiIdle ==
    /\ imageData = << >>
    /\ mu = Unlocked
    /\ progress = << >>
    /\ guiPc = << >>
    /\ guiLocal = << >>
    /\ guiShown = << >>
    /\ guiSaved = FALSE

OtherIdle == FsIdle /\ ObjIdle /\ GuiIdle

\* NewHDRProcessor
Init ==
    /\ variant \in Variants
    /\ toneMapper = IF variant = "three" THEN "ReinhardToneMapper"
                    ELSE "reinhard05"
    /\ params = DefaultParams(variant)
    /\ pc = "idle"
    /\ IdleLocals
    /\ MergeIdle
    /\ FnIdle
    /\ ListIdle
    /\ CliIdle
    /\ OtherIdle

Fail(kind) ==
    /\ pc' = "done"
    /\ err' = kind
    /\ result' = Nil

Panic ==
    /\ pc' = "panicked"
    /\ UNCHANGED <<err, result>>

\* a stage's outcome: a panic, a returned error, or the next stage
Outcome(e, next) ==
    IF e = "panic" THEN Panic
    ELSE IF e # NoErr THEN Fail(e)
    ELSE pc' = next /\ UNCHANGED <<err, result>>

WithToneMapper(mapper) ==
    /\ pc = "idle"
    /\ variant # "three"
    /\ toneMapper' = mapper
    /\ UNCHANGED <<variant, params, pc, images, hdrImages, merged, result,
                   err, pixelsRead, mergeVars, fnVars, listVars, otherVars,
                   cliVars>>

WithParams(new) ==
    /\ pc = "idle"
    /\ variant # "three"
    /\ params' = MergeParams(params, new)
    /\ UNCHANGED <<variant, toneMapper, pc, images, hdrImages, merged,
                   result, err, pixelsRead, mergeVars, fnVars, listVars,
                   otherVars, cliVars>>

\* the call and its entry check, whoever the caller is
ProcessCall(imgs) ==
    /\ pc = "idle"
    /\ images' = imgs
    /\ IF TooFew(variant, imgs) THEN Fail(EntryError(variant))
       ELSE /\ pc' = CASE variant = "average"  -> "convert"
                       [] variant = "weighted" -> "size"
                       [] variant = "three"    -> "validate"
            /\ UNCHANGED <<err, result>>
    /\ UNCHANGED <<variant, toneMapper, params, hdrImages, merged,
                   pixelsRead, mergeVars, fnVars, listVars, otherVars>>

\* Process called by a program that holds the processor
Process(imgs) == ProcessCall(imgs) /\ UNCHANGED cliVars

\* p.validateImageSize(images[0])
ValidateSize ==
    /\ pc = "size"
    /\ IF Len(images) = 0 THEN Panic
       ELSE Outcome(validateImageSize(toneMapper, images[1]), "convert")
    /\ UNCHANGED <<variant, toneMapper, params, images, hdrImages, merged,
                   pixelsRead, mergeVars, fnVars, listVars, otherVars,
                   cliVars>>

\* the conversion loop
Convert ==
    /\ pc = "convert"
    /\ LET k == NilIndex(images)
       IN  IF k # 0
           THEN /\ Fail("NilImage")
                /\ pixelsRead' = pixelsRead + ConvertReads(images, k - 1)
                /\ UNCHANGED hdrImages
           ELSE IF \E i \in 1 .. Len(images) : images[i] = Nil
           THEN /\ Panic
                /\ UNCHANGED <<pixelsRead, hdrImages>>
           ELSE /\ hdrImages' = [i \in 1 .. Len(images) |-> ToHDR(images[i])]
                /\ pixelsRead' = pixelsRead + ConvertReads(images, Len(images))
                /\ pc' = "validate"
                /\ UNCHANGED <<err, result>>
    /\ UNCHANGED <<variant, toneMapper, params, images, merged, mergeVars,
                   fnVars, listVars, otherVars, cliVars>>

\* validateImageProperties
Validate ==
    /\ pc = "validate"
    /\ IF variant = "three"
       THEN Outcome(validateImagePropertiesThree(images), "align")
       ELSE Outcome(validateImageProperties(hdrImages), "alloc")
    /\ UNCHANGED <<variant, toneMapper, params, images, hdrImages, merged,
                   pixelsRead, mergeVars, fnVars, listVars, otherVars,
                   cliVars>>

\* align.AlignImages(images), three-exposure snapshot only
Align ==
    /\ pc = "align"
    /\ LET e == AlignImages(images)
       IN  IF e = "panic" THEN Panic /\ UNCHANGED hdrImages
           ELSE IF e # NoErr THEN Fail("AlignmentFailed") /\ UNCHANGED hdrImages
           ELSE /\ hdrImages' = images
                /\ pc' = "alloc"
                /\ UNCHANGED <<err, result>>
    /\ UNCHANGED <<variant, toneMapper, params, images, merged, pixelsRead,
                   mergeVars, fnVars, listVars, otherVars, cliVars>>

\* merged := hdr.NewRGB(bounds), hdrImage := make([][]HDRPixel, height)
Alloc ==
    /\ pc = "alloc"
    /\ merged' = [allocated |-> TRUE, bounds |-> hdrImages[1].bounds,
                  pix |-> [p \in Pixels(hdrImages[1].bounds) |-> ZeroPixel]]
    /\ pc' = "merge"
    /\ UNCHANGED <<variant, toneMapper, params, images, hdrImages, result,
                   err, pixelsRead, mergeVars, fnVars, listVars, otherVars,
                   cliVars>>

\* the merge loop over all pixels
Merge ==
    /\ pc = "merge"
    /\ merged' = [merged EXCEPT !.pix =
                     [p \in Pixels(merged.bounds) |->
                         MergePixel(variant,
                                    ExposuresAt(variant, hdrImages, p))]]
    /\ pixelsRead' = pixelsRead +
                     Len(hdrImages) * Cardinality(Pixels(merged.bounds))
    /\ pc' = IF variant = "three" THEN "tonemap" ELSE "select"
    /\ UNCHANGED <<variant, toneMapper, params, images, hdrImages, result,
                   err, mergeVars, fnVars, listVars, otherVars, cliVars>>

\* switch p.toneMapper { ... default: unsupported }
SelectToneMapper ==
    /\ pc = "select"
    /\ IF toneMapper \in SupportedToneMappers(variant)
       THEN pc' = "perform" /\ UNCHANGED <<err, result>>
       ELSE Fail("UnsupportedToneMapper")
    /\ UNCHANGED <<variant, toneMapper, params, images, hdrImages, merged,
                   pixelsRead, mergeVars, fnVars, listVars, otherVars,
                   cliVars>>

\* return tm.Perform(), nil
PerformToneMapping ==
    /\ pc = "perform"
    /\ result' = Perform(toneMapper, params, merged)
    /\ pc' = "done"
    /\ UNCHANGED <<variant, toneMapper, params, images, hdrImages, merged,
                   err, pixelsRead, mergeVars, fnVars, listVars, otherVars,
                   cliVars>>

\* the tone-mapping loop of the three-exposure snapshot and its return
ToneMapOutput ==
    /\ pc = "tonemap"
    /\ result' = ToneMapImage(merged)
    /\ pc' = "done"
    /\ UNCHANGED <<variant, toneMapper, params, images, hdrImages, merged,
                   err, pixelsRead, mergeVars, fnVars, listVars, otherVars,
                   cliVars>>

\* the caller drops the call's values; the processor can be used again
Return ==
    /\ pc = "done"
    /\ pc' = "idle"
    /\ images' = << >>
    /\ hdrImages' = << >>
    /\ merged' = NoMap
    /\ result' = Nil
    /\ err' = NoErr
    /\ pixelsRead' = 0
    /\ UNCHANGED <<variant, toneMapper, params, mergeVars, fnVars, listVars,
                   otherVars, cliVars>>

Next ==
    \/ \E mapper \in Names : WithToneMapper(mapper)
    \/ \E new \in ParamUpdates : WithParams(new)
    \/ \E imgs \in ImageLists : Process(imgs)
    \/ ValidateSize
    \/ Convert
    \/ Validate
    \/ Align
    \/ Alloc
    \/ Merge
    \/ SelectToneMapper
    \/ PerformToneMapping
    \/ ToneMapOutput
    \/ Return

Spec == Init /\ [][Next]_vars

---------------------------------------------------------------------------
(* The merge of one pixel, over a palette of samples *)

Palette == {Black, White, Third, TwoThirds, Orange}

RECURSIVE SamplesUpTo(_)
SamplesUpTo(n) ==
    IF n = 0 THEN {<<>>}
    ELSE LET shorter == SamplesUpTo(n - 1)
         IN  shorter \cup
             {Append(l, x) : l \in {m \in shorter : Len(m) = n - 1},
                             x \in Palette}

\* the exposure counts each snapshot's merge accepts
PixelExposures(v) ==
    {e \in SamplesUpTo(MaxImages) :
        IF v = "three" THEN Len(e) = 3 ELSE Len(e) >= 2}

ProcIdle ==
    /\ toneMapper = IF variant = "three" THEN "ReinhardToneMapper"
                    ELSE "reinhard05"
    /\ params = DefaultParams(variant)
    /\ pc = "idle"
    /\ IdleLocals

InitMerge ==
    /\ variant \in Variants
    /\ ProcIdle
    /\ expo \in PixelExposures(variant)
    /\ fused = << >>
    /\ FnIdle
    /\ ListIdle
    /\ CliIdle
    /\ OtherIdle

\* one iteration of the merge loop: the exposures' samples at a pixel are
\* converted to radiance and merged
MergeOnePixel ==
    /\ fused = << >>
    /\ fused' = MergePixel(variant, [i \in 1 .. Len(expo) |-> RadianceOf(expo[i])])
    /\ UNCHANGED <<procVars, expo, fnVars, listVars, otherVars, cliVars>>

NextMerge == MergeOnePixel

SpecMerge == InitMerge /\ [][NextMerge]_vars

---------------------------------------------------------------------------
(* The configurable processor: more parameter bags over a few exposure lists *)

\* single-key updates: a key no operator reads, a key only the Reinhard
\* operators read, and a key most operators read
ConfigUpdates ==
    {[k \in {"bias"} |-> RInt(2)],
     [k \in {"light"} |-> OneHalf],
     [k \in {"gamma"} |-> RInt(2)]}

ConfigLists ==
    {<<ImgA>>, <<ImgA, ImgA>>, <<ImgA, ImgB>>, <<ImgB, ImgB, ImgB>>,
     <<Dark, Mid, Bright>>}

InitConfig ==
    /\ variant \in {"average", "weighted"}
    /\ ProcIdle
    /\ MergeIdle
    /\ FnIdle
    /\ ListIdle
    /\ CliIdle
    /\ OtherIdle

NextConfig ==
    \/ \E mapper \in Names : WithToneMapper(mapper)
    \/ \E new \in ConfigUpdates : WithParams(new)
    \/ \E imgs \in ConfigLists : Process(imgs)
    \/ ValidateSize
    \/ Convert
    \/ Validate
    \/ Alloc
    \/ Merge
    \/ SelectToneMapper
    \/ PerformToneMapping
    \/ Return

SpecConfig == InitConfig /\ [][NextConfig]_vars

---------------------------------------------------------------------------
(* The scalar functions, over a grid of inputs *)

Grid == {Rat(k, 2 * Half) : k \in -2 * Half .. 4 * Half} \cup {RInt(10), RInt(1000)}

InitFn ==
    /\ variant = "three"
    /\ ProcIdle
    /\ MergeIdle
    /\ fnArg \in Grid \X Grid
    /\ fnOut = << >>
    /\ ListIdle
    /\ CliIdle
    /\ OtherIdle

ApplyWeight ==
    /\ fnOut = << >>
    /\ fnOut' = [fn |-> "weight", out |-> <<weight(fnArg[1]), weight(fnArg[2])>>]
    /\ UNCHANGED <<procVars, mergeVars, fnArg, listVars, otherVars, cliVars>>

ApplyReinhard ==
    /\ fnOut = << >>
    /\ fnOut' = [fn |-> "reinhard",
                 out |-> <<ReinhardToneMap(fnArg[1]), ReinhardToneMap(fnArg[2])>>]
    /\ UNCHANGED <<procVars, mergeVars, fnArg, listVars, otherVars, cliVars>>

\* the inputs on which Drago's products stay within the model's integers
DragoInputs == {v \in Grid : RLeq(v, RInt(10))}

ApplyDrago ==
    /\ fnOut = << >>
    /\ fnArg \in DragoInputs \X DragoInputs
    /\ fnOut' = [fn |-> "drago",
                 out |-> <<DragoToneMap(TestDragoToneMapper, fnArg[1]),
                           DragoToneMap(TestDragoToneMapper, fnArg[2])>>]
    /\ UNCHANGED <<procVars, mergeVars, fnArg, listVars, otherVars, cliVars>>

NextFn == ApplyWeight \/ ApplyReinhard \/ ApplyDrago

SpecFn == InitFn /\ [][NextFn]_vars

---------------------------------------------------------------------------
(* Functions of exposure lists, applied to every list of the model *)

\* filepath.Ext(img.Bounds().String()): the bounds print as "(0,0)-(w,h)",
\* which has no dot, so the extension is empty
BoundsExt(img) == ""

\* imaging.GetImageProperties
GetImageProperties(img, format) ==
    [Width |-> Dx(img), Height |-> Dy(img), ColorDepth |-> 8,
     Format |-> format]

\* imaging.ValidateImageProperties
ValidateImageProperties(baseProps, props) ==
    /\ baseProps.Width = props.Width
    /\ baseProps.Height = props.Height
    /\ baseProps.ColorDepth = props.ColorDepth
    /\ baseProps.Format = props.Format

\* the snapshots of main's validateImageProperties
MainValidators == {"main.go", "part_000"}

\* validateImageProperties of package main: NoErr, an error, or "panic".
\* main.go compares the imaging properties only and calls Bounds() on every
\* element; part_000 checks for nil first, then bounds, colour model and
\* properties of each image in turn.
mainValidateImageProperties(snap, imgs) ==
    IF Len(imgs) < 2 THEN "InsufficientCount"
    ELSE IF snap = "main.go"
    THEN IF imgs[1] = Nil THEN "panic"
         ELSE LET base == GetImageProperties(imgs[1], BoundsExt(imgs[1]))
                  bad  == {i \in 2 .. Len(imgs) :
                             \/ imgs[i] = Nil
                             \/ ~ValidateImageProperties(base,
                                    GetImageProperties(imgs[i],
                                                       BoundsExt(imgs[i])))}
              IN  IF bad = {} THEN NoErr
                  ELSE IF imgs[Min(bad)] = Nil THEN "panic"
                  ELSE "PropertiesMismatch"
    ELSE IF \E i \in 1 .. Len(imgs) : imgs[i] = Nil THEN "NilImage"
    ELSE LET base == GetImageProperties(imgs[1], BoundsExt(imgs[1]))
             bad  == {i \in 2 .. Len(imgs) :
                        \/ imgs[i].bounds # imgs[1].bounds
                        \/ imgs[i].cm # imgs[1].cm
                        \/ ~ValidateImageProperties(base,
                               GetImageProperties(imgs[i],
                                                  BoundsExt(imgs[i])))}
         IN  IF bad = {} THEN NoErr
             ELSE LET i == Min(bad)
                  IN  IF imgs[i].bounds # imgs[1].bounds
                      THEN "DimensionMismatch"
                      ELSE IF imgs[i].cm # imgs[1].cm
                      THEN "ColorModelMismatch"
                      ELSE "PropertiesMismatch"

InitLists ==
    /\ variant = "average"
    /\ ProcIdle
    /\ MergeIdle
    /\ FnIdle
    /\ CliIdle
    /\ OtherIdle
    /\ listArg \in ImageLists
    /\ listOut = << >>

\* aligned, err := align.AlignImages(images)
CallAlignImages ==
    /\ listOut = << >>
    /\ LET e == AlignImages(listArg)
       IN  listOut' = [fn |-> "AlignImages", err |-> e,
                       images |-> IF e = NoErr THEN listArg ELSE << >>]
    /\ UNCHANGED <<procVars, mergeVars, fnVars, listArg, otherVars, cliVars>>

\* err := validateImageProperties(images) of package main
CallValidateImageProperties(snap) ==
    /\ listOut = << >>
    /\ listOut' = [fn |-> "validateImageProperties", snap |-> snap,
                   err |-> mainValidateImageProperties(snap, listArg)]
    /\ UNCHANGED <<procVars, mergeVars, fnVars, listArg, otherVars, cliVars>>

NextLists ==
    \/ CallAlignImages
    \/ \E snap \in MainValidators : CallValidateImageProperties(snap)

SpecLists == InitLists /\ [][NextLists]_vars

---------------------------------------------------------------------------
(* The command line program: main of cmd/hdarrrr, in its four snapshots *)

\* the snapshots of main, named by the place where each begins
CliMains == {"main.go:16", "main.go:150", "part_000:37", "part_000:160"}

\* the snapshots of imaging.LoadImages: image.go compares the images'
\* properties and returns hdr.Image values, part_005 returns what it decoded
CliLoaders == {"image.go", "part_005"}

\* main.go:150 converts the loaded images with At(x, y).RGBA() itself, which
\* for an hdr.Image is computed outside this repository: it is run on
\* decoded images only
CliLoadersOf(main) ==
    IF main = "main.go:150" THEN {"part_005"} ELSE CliLoaders

\* the processors a main can be built with: WithToneMapper and WithParams
\* do not exist in the three-exposure snapshot, which also reads its inputs
\* with At(x, y).RGBA()
CliVariants(main, loader) ==
    IF main \in {"main.go:150", "part_000:37"} \/ loader = "image.go"
    THEN {"average", "weighted"}
    ELSE Variants

Absent == [kind |-> "absent"]   \* no readable image file at the path

\* a file: the codec it was written with and the image its decoder yields
Stored(codec, img) == [codec |-> codec, image |-> img]

\* an input path: its extension and the file stored under it
PathTo(ext, file) == [ext |-> ext, file |-> file]

NoPath == PathTo("", Absent)    \* the default "" of -low, -mid and -high

InputPaths ==
    {NoPath, PathTo(".png", Stored("png", ImgA)),
     PathTo(".png", Stored("png", ImgB)),
     PathTo(".PNG", Stored("png", ImgA)),
     PathTo(".bmp", Stored("bmp", ImgA)), PathTo(".png", Absent)}

\* an output path: its extension and its directory ("." is the working
\* directory, "blocked" a directory that cannot be created)
OutputTo(ext, dir) == [ext |-> ext, dir |-> dir]

OutputPaths ==
    {OutputTo(".jpg", "."), OutputTo(".bmp", "."), OutputTo(".png", "out"),
     OutputTo(".png", "blocked")}

\* the values given to -method (part_000:160) or -tonemapper
ChoicesOf(main) ==
    CASE main = "part_000:160" -> {"tone-mapping", "exposure-fusion", "bogus"}
      [] main = "main.go:16"   -> {"none"}
      [] OTHER                 -> {"reinhard05", "bogus"}

\* the values given to -gamma
GammasOf(main) == IF main = "part_000:37" THEN {One, Zero} ELSE {One}

\* strings.ToLower on the extensions of the model
ToLower(ext) ==
    CASE ext = ".PNG"  -> ".png"
      [] ext = ".JPG"  -> ".jpg"
      [] ext = ".JPEG" -> ".jpeg"
      [] OTHER         -> ext

\* imaging.SupportedFormats
SupportedFormats == {".png", ".jpg", ".jpeg"}

\* validToneMappers of part_000:37
ValidToneMappers ==
    {"linear", "logarithmic", "drago03", "durand", "custom_reinhard05",
     "reinhard05", "icam06"}

\* the decoder LoadImage picks for a supported extension
DecoderOf(ext) == IF ext = ".png" THEN "png" ELSE "jpeg"

\* imaging.LoadImage: the extension is checked, the file opened and decoded
LoadImage(loader, path) ==
    IF ToLower(path.ext) \notin SupportedFormats
    THEN [err |-> "UnsupportedFormat", img |-> Nil]
    ELSE IF path.file = Absent THEN [err |-> "OpenFailed", img |-> Nil]
    ELSE IF path.file.codec # DecoderOf(ToLower(path.ext))
    THEN [err |-> "DecodeFailed", img |-> Nil]
    ELSE [err |-> NoErr,
          img |-> IF loader = "image.go" THEN convertToHDR(path.file.image)
                  ELSE path.file.image]

\* imaging.LoadImages: the first error met, else the images in path order
LoadImages(loader, paths) ==
    LET one(i) == LoadImage(loader, paths[i])
        failed == {i \in 1 .. Len(paths) : one(i).err # NoErr}
        imgs   == [i \in 1 .. Len(paths) |-> one(i).img]
        props(i) == GetImageProperties(imgs[i], ToLower(paths[i].ext))
    IN  IF failed # {}
        THEN [err |-> one(Min(failed)).err, images |-> << >>]
        ELSE IF /\ loader = "image.go"
                /\ \E i \in 2 .. Len(paths) :
                      ~ValidateImageProperties(props(1), props(i))
        THEN [err |-> "PropertiesMismatch", images |-> << >>]
        ELSE [err |-> NoErr, images |-> imgs]

\* the slice align.AlignImages returns: its input, or nil with an error
AlignedImages(imgs) == IF AlignImages(imgs) = NoErr THEN imgs ELSE << >>

\* main without its fallback: the returned slice is used whatever the error
AlignedOrOriginalUnchecked(returned, e, original) == returned

\* if err != nil { alignedImages = images }
AlignedOrOriginal(returned, e, original) ==
    IF e # NoErr THEN original ELSE returned

\* processExposureFusion: a placeholder that returns an error
processExposureFusion(imgs) == [image |-> Nil, err |-> "NotImplemented"]

\* main that drops the error of Process
ProcessOutcomeUnchecked(p, e) ==
    IF p = "panicked" THEN "crash" ELSE "continue"

\* what main does with the outcome of Process: a panic ends the program,
\* an error goes to log.Fatal
ProcessOutcome(p, e) ==
    IF p = "panicked" THEN "crash"
    ELSE IF e # NoErr THEN "fatal"
    ELSE "continue"

\* what an encoder writes: the codec and the image handed to it
Encoded(codec, img) == [codec |-> codec, of |-> img]

Empty == [kind |-> "empty"]     \* a file of length zero

\* imaging.SaveImage: os.Create makes or truncates the file, then the
\* extension picks the encoder; `old` is what the path held before
SaveImage(img, path, old) ==
    IF path.dir = "blocked" THEN [err |-> "CreateFailed", file |-> old]
    ELSE IF ToLower(path.ext) \in {".jpg", ".jpeg"}
    THEN [err |-> NoErr, file |-> Encoded("jpeg", img)]
    ELSE IF ToLower(path.ext) = ".png"
    THEN [err |-> NoErr, file |-> Encoded("png", img)]
    ELSE [err |-> "UnsupportedOutputFormat", file |-> Empty]

InitCLI ==
    /\ cliMain \in CliMains
    /\ cliLoader \in CliLoadersOf(cliMain)
    /\ variant \in CliVariants(cliMain, cliLoader)
    /\ ProcIdle
    /\ MergeIdle
    /\ FnIdle
    /\ ListIdle
    /\ ObjIdle
    /\ GuiIdle
    /\ disk = [p \in OutputPaths |-> Absent]
    /\ cliArgs \in [paths  : InputPaths \X InputPaths \X InputPaths,
                    output : OutputPaths,
                    choice : ChoicesOf(cliMain),
                    gamma  : GammasOf(cliMain)]
    /\ cliPc = "start"
    /\ cliImages = << >>
    /\ cliAligned = << >>
    /\ cliAlignErr = NoErr
    /\ cliOutput = Nil
    /\ cliTrace = << >>
    /\ cliExit = Running

\* the stage's outcome is recorded; main goes on, or exits with a status
CliStep(event, next, status) ==
    /\ cliTrace' = Append(cliTrace, event)
    /\ cliPc' = next
    /\ cliExit' = status

\* log.Fatal, os.Exit(1)
CliFatal(event) == CliStep(event, "exited", 1)

\* an uncaught panic
CliCrash(event) == CliStep(event, "exited", 2)

\* if *img1Path == "" || *img2Path == "" || *img3Path == "" { os.Exit(1) }
MainCheckRequired ==
    /\ cliPc = "start"
    /\ IF \E i \in 1 .. 3 : cliArgs.paths[i] = NoPath
       THEN CliFatal("args failed")
       ELSE /\ cliPc' = IF cliMain = "part_000:37" THEN "mapper" ELSE "ext"
            /\ UNCHANGED <<cliTrace, cliExit>>
    /\ UNCHANGED <<procVars, mergeVars, fnVars, listVars, otherVars, cliMain,
                   cliLoader, cliArgs, cliImages, cliAligned, cliAlignErr,
                   cliOutput>>

\* the loop over the paths' extensions
MainCheckExtensions ==
    /\ cliPc = "ext"
    /\ IF \E i \in 1 .. 3 : ToLower(cliArgs.paths[i].ext) \notin SupportedFormats
       THEN CliFatal("args failed")
       ELSE CliStep("args", "load", Running)
    /\ UNCHANGED <<procVars, mergeVars, fnVars, listVars, otherVars, cliMain,
                   cliLoader, cliArgs, cliImages, cliAligned, cliAlignErr,
                   cliOutput>>

\* the checks of -tonemapper and -gamma of part_000:37
MainCheckToneMapper ==
    /\ cliPc = "mapper"
    /\ IF cliArgs.choice \notin ValidToneMappers \/ RLeq(cliArgs.gamma, Zero)
       THEN CliFatal("args failed")
       ELSE CliStep("args", "load", Running)
    /\ UNCHANGED <<procVars, mergeVars, fnVars, listVars, otherVars, cliMain,
                   cliLoader, cliArgs, cliImages, cliAligned, cliAlignErr,
                   cliOutput>>

\* images, err := imaging.LoadImages(...)
MainLoad ==
    /\ cliPc = "load"
    /\ LET r == LoadImages(cliLoader, cliArgs.paths)
       IN  IF r.err # NoErr
           THEN CliFatal("load failed") /\ UNCHANGED cliImages
           ELSE /\ cliImages' = r.images
                /\ CliStep("load",
                           IF cliMain = "main.go:16" THEN "validate"
                           ELSE "align",
                           Running)
    /\ UNCHANGED <<procVars, mergeVars, fnVars, listVars, otherVars, cliMain,
                   cliLoader, cliArgs, cliAligned, cliAlignErr, cliOutput>>

\* the slice main hands to align.AlignImages: main.go:150 converts first
AlignInput ==
    IF cliMain = "main.go:150"
    THEN [i \in 1 .. Len(cliImages) |-> convertToHDR(cliImages[i])]
    ELSE cliImages

\* alignedImages, err := align.AlignImages(images) and the fallback
MainAlign ==
    /\ cliPc = "align"
    /\ LET e    == AlignImages(AlignInput)
           next == IF cliMain = "part_000:160" THEN "validate"
                   ELSE "configure"
       IN  IF e = "panic"
           THEN CliCrash("align failed") /\ UNCHANGED <<cliAligned, cliAlignErr>>
           ELSE /\ cliAlignErr' = e
                /\ cliAligned' = AlignedOrOriginal(AlignedImages(AlignInput),
                                                   e, AlignInput)
                /\ CliStep(IF e = NoErr THEN "align" ELSE "align failed",
                           next, Running)
    /\ UNCHANGED <<procVars, mergeVars, fnVars, listVars, otherVars, cliMain,
                   cliLoader, cliArgs, cliImages, cliOutput>>

\* if err := validateImageProperties(...); err != nil { log.Fatal(...) }
MainValidate ==
    /\ cliPc = "validate"
    /\ LET first == cliMain = "main.go:16"
           list  == IF first THEN cliImages ELSE cliAligned
           e     == mainValidateImageProperties(
                        IF first THEN "main.go" ELSE "part_000", list)
       IN  IF e = "panic"
           THEN CliCrash("validate failed") /\ UNCHANGED cliAligned
           ELSE IF e # NoErr
           THEN CliFatal("validate failed") /\ UNCHANGED cliAligned
           ELSE /\ cliAligned' = list
                /\ CliStep("validate",
                           IF first THEN "process" ELSE "method", Running)
    /\ UNCHANGED <<procVars, mergeVars, fnVars, listVars, otherVars, cliMain,
                   cliLoader, cliArgs, cliImages, cliAlignErr, cliOutput>>

\* switch *hdrMethod of part_000:160
MainSelectMethod ==
    /\ cliPc = "method"
    /\ CASE cliArgs.choice = "tone-mapping" ->
              /\ cliPc' = "process"
              /\ UNCHANGED <<cliTrace, cliExit>>
         [] cliArgs.choice = "exposure-fusion" ->
              IF processExposureFusion(cliAligned).err # NoErr
              THEN CliFatal("process failed")
              ELSE CliStep("process", "mkdir", Running)
         [] OTHER -> CliFatal("method rejected")
    /\ UNCHANGED <<procVars, mergeVars, fnVars, listVars, otherVars, cliMain,
                   cliLoader, cliArgs, cliImages, cliAligned, cliAlignErr,
                   cliOutput>>

\* processor.NewHDRProcessor().WithToneMapper(...).WithParams(...)
MainConfigure ==
    /\ cliPc = "configure"
    /\ toneMapper' = cliArgs.choice
    /\ params' = MergeParams(params,
                     [k \in {"gamma", "intensity", "light"} |->
                         CASE k = "gamma"     -> cliArgs.gamma
                           [] k = "intensity" -> One
                           [] k = "light"     -> Zero])
    /\ cliPc' = "process"
    /\ UNCHANGED <<variant, pc, images, hdrImages, merged, result, err,
                   pixelsRead, mergeVars, fnVars, listVars, otherVars,
                   cliMain, cliLoader, cliArgs, cliImages, cliAligned,
                   cliAlignErr, cliOutput, cliTrace, cliExit>>

\* output, err := hdrProc.Process(alignedImages): the call
MainCallProcess ==
    /\ cliPc = "process"
    /\ ProcessCall(cliAligned)
    /\ cliPc' = "awaiting"
    /\ UNCHANGED <<cliMain, cliLoader, cliArgs, cliImages, cliAligned,
                   cliAlignErr, cliOutput, cliTrace, cliExit>>

\* output, err := hdrProc.Process(alignedImages): the return
MainAfterProcess ==
    /\ cliPc = "awaiting"
    /\ pc \in {"done", "panicked"}
    /\ LET event == IF pc = "done" /\ err = NoErr THEN "process"
                    ELSE "process failed"
           todo  == ProcessOutcome(pc, err)
       IN  CASE todo = "crash" -> CliCrash(event) /\ UNCHANGED cliOutput
             [] todo = "fatal" -> CliFatal(event) /\ UNCHANGED cliOutput
             [] OTHER -> /\ cliOutput' = result
                         /\ CliStep(event, "mkdir", Running)
    /\ UNCHANGED <<procVars, mergeVars, fnVars, listVars, otherVars, cliMain,
                   cliLoader, cliArgs, cliImages, cliAligned, cliAlignErr>>

\* if dir != "." { os.MkdirAll(dir, 0755) }
MainMakeDir ==
    /\ cliPc = "mkdir"
    /\ IF cliArgs.output.dir = "blocked"
       THEN CliFatal("mkdir failed")
       ELSE cliPc' = "save" /\ UNCHANGED <<cliTrace, cliExit>>
    /\ UNCHANGED <<procVars, mergeVars, fnVars, listVars, otherVars, cliMain,
                   cliLoader, cliArgs, cliImages, cliAligned, cliAlignErr,
                   cliOutput>>

\* if err := imaging.SaveImage(output, *outputPath); err != nil { ... }
MainSave ==
    /\ cliPc = "save"
    /\ LET r == SaveImage(cliOutput, cliArgs.output, disk[cliArgs.output])
       IN  /\ disk' = [disk EXCEPT ![cliArgs.output] = r.file]
           /\ IF r.err # NoErr
              THEN CliFatal("save failed")
              ELSE CliStep("save", "message", Running)
    /\ UNCHANGED <<procVars, mergeVars, fnVars, listVars, objVars, guiVars,
                   cliMain, cliLoader, cliArgs, cliImages, cliAligned,
                   cliAlignErr, cliOutput>>

\* fmt.Printf("HDR image successfully saved to %s\n", ...) and the return
MainPrintSuccess ==
    /\ cliPc = "message"
    /\ CliStep("message", "exited", 0)
    /\ UNCHANGED <<procVars, mergeVars, fnVars, listVars, otherVars, cliMain,
                   cliLoader, cliArgs, cliImages, cliAligned, cliAlignErr,
                   cliOutput>>

NextCLI ==
    \/ MainCheckRequired
    \/ MainCheckExtensions
    \/ MainCheckToneMapper
    \/ MainLoad
    \/ MainAlign
    \/ MainValidate
    \/ MainSelectMethod
    \/ MainConfigure
    \/ MainCallProcess
    \/ ValidateSize
    \/ Convert
    \/ Validate
    \/ Align
    \/ Alloc
    \/ Merge
    \/ SelectToneMapper
    \/ PerformToneMapping
    \/ ToneMapOutput
    \/ MainAfterProcess
    \/ MainMakeDir
    \/ MainSave
    \/ MainPrintSuccess

\* main is a sequential program: it keeps running until it exits
SpecCLI == InitCLI /\ [][NextCLI]_vars /\ WF_vars(NextCLI)

---------------------------------------------------------------------------
(* Properties of Process *)

Terminated == pc \in {"done", "panicked"}

ReturnedError == pc = "done" /\ err # NoErr /\ result = Nil

NoNil(imgs) == \A i \in 1 .. Len(imgs) : imgs[i] # Nil

\* C1: when the configured tone-mapper name is not supported, Process
\* returns the unsupported-tone-mapper error before the merged radiance map
\* is allocated and before any pixel is read or merged.
C1_RejectedBeforeMerge ==
    (pc = "done" /\ err = "UnsupportedToneMapper")
        => (~merged.allocated /\ pixelsRead = 0)

\* C2: Process returns an error and no image whenever some exposure's
\* colour model differs from the first exposure's, even with equal bounds.
C2_ColorModelMismatchRejected ==
    (/\ Terminated
     /\ Len(images) >= 2
     /\ NoNil(images)
     /\ \A i \in 1 .. Len(images) : images[i].bounds = images[1].bounds
     /\ \E i \in 2 .. Len(images) : images[i].cm # images[1].cm)
        => ReturnedError

\* C3: (hdr.go) Process returns a non-nil error and a nil image for every
\* list of two or more exposures that holds a nil element, at any index.
C3_NilElementRejected ==
    (/\ Terminated
     /\ variant = "average"
     /\ Len(images) >= 2
     /\ ~NoNil(images))
        => ReturnedError

C3_Witness ==
    /\ pc = "done"
    /\ variant = "average"
    /\ Len(images) = 3
    /\ images[1] # Nil
    /\ images[2] # Nil
    /\ images[3] = Nil
    /\ err = "NilImage"
    /\ result = Nil

\* C4: Process returns a non-nil error and a nil image whenever fewer than
\* two exposures are supplied, whatever the tone-mapper name and parameters.
C4_TooFewRejected ==
    (Terminated /\ Len(images) < 2) => ReturnedError

C4_Witness ==
    /\ pc = "done"
    /\ variant = "weighted"
    /\ Len(images) = 1
    /\ toneMapper = "bogus"
    /\ params["gamma"] = RInt(2)
    /\ err = "InsufficientCount"
    /\ result = Nil

\* C5: Process returns a non-nil error and a nil image whenever an exposure
\* after the first has bounds different from the first exposure's.
C5_BoundsMismatchRejected ==
    (/\ Terminated
     /\ variant \in {"average", "weighted"}
     /\ Len(images) >= 2
     /\ images[1] # Nil
     /\ \E i \in 2 .. Len(images) :
            images[i] # Nil /\ images[i].bounds # images[1].bounds)
        => ReturnedError

C5_Witness ==
    /\ pc = "done"
    /\ variant = "average"
    /\ images = <<ImgA, ImgA, ImgB>>
    /\ err = "DimensionMismatch"
    /\ result = Nil

---------------------------------------------------------------------------
(* Properties of the merge of one pixel *)

Identical(e) == \A i \in 1 .. Len(e) : e[i] = e[1]

Channels == 1 .. 3

\* C7 as stated: merging N identical exposures yields exactly that
\* exposure's radiance in every channel, fully dark and fully saturated
\* samples included.
C7_IdenticalPreserved ==
    (fused # << >> /\ Identical(expo)) => fused = RadianceOf(expo[1])

\* C7 as amended: merging N identical exposures yields exactly that
\* exposure's radiance in every channel, except that mergeExposures of the
\* three-exposure snapshot yields 0 for a fully saturated sample.
C7_IdenticalPreservedUnlessSaturated ==
    (fused # << >> /\ Identical(expo)) =>
        \A c \in Channels :
            fused[c] = IF variant = "three" /\ expo[1][c] = FullScale
                       THEN Zero
                       ELSE ToRadiance(expo[1][c])

C7_Witness ==
    /\ variant = "three"
    /\ expo = <<White, White, White>>
    /\ fused = ZeroPixel

\* the channel-c values of the exposures
ChannelValues(e, c) == [i \in 1 .. Len(e) |-> ToRadiance(e[i][c])]

\* sum(v_i * w_i) / sum(w_i), or 0 when the weights sum to 0
WeightedMean(vs, ws) ==
    LET sw == RSum(ws)
    IN  IF sw = Zero THEN Zero
        ELSE RDiv(RSum([i \in 1 .. Len(vs) |-> RMul(vs[i], ws[i])]), sw)

\* C8 as stated: the fused value of a channel is sum(v_i * weight(v_i)) /
\* sum(weight(v_i)) with each weight taken from that channel's own value,
\* and 0 when the weights sum to 0.
C8_PerChannelWeightedMean ==
    (fused # << >> /\ variant \in {"three", "weighted"}) =>
        \A c \in Channels :
            LET vs == ChannelValues(expo, c)
                ws == [i \in 1 .. Len(vs) |->
                          IF variant = "three" THEN weight(vs[i])
                          ELSE calculateWeight(vs[i])]
            IN  fused[c] = WeightedMean(vs, ws)

\* C8 as amended: in mergeExposures the weight of a value is weight(v_i) of
\* the channel's own value; in the brightness-weighted Process it is
\* calculateWeight of the mean of the exposure's three channels; either way
\* the fused value is sum(v_i * w_i) / sum(w_i), and 0 without a division
\* when the weights sum to 0.
C8_WeightedMeanPerVariant ==
    (fused # << >> /\ variant \in {"three", "weighted"}) =>
        \A c \in Channels :
            LET vs == ChannelValues(expo, c)
                ws == [i \in 1 .. Len(vs) |->
                          IF variant = "three" THEN weight(vs[i])
                          ELSE calculateWeight(Brightness(RadianceOf(expo[i])))]
                sw == RSum(ws)
            IN  /\ RFinite(fused[c])
                /\ sw = Zero => fused[c] = Zero
                /\ sw # Zero =>
                      RMul(fused[c], sw) =
                          RSum([i \in 1 .. Len(vs) |-> RMul(vs[i], ws[i])])

C8_Witness ==
    /\ variant = "three"
    /\ expo = <<Black, White, Black>>
    /\ fused = ZeroPixel

---------------------------------------------------------------------------
(* Properties of the scalar functions *)

\* C9: weight(0) = weight(1) = 0, weight(0.5) = 1, weight(v) = weight(1 - v)
\* and weight(v) >= 0 on [0,1], and weight(v) = 0 outside [0,1].
C9_WeightShape ==
    (fnOut # << >> /\ fnOut.fn = "weight") =>
        LET a  == fnArg[1]
            b  == fnArg[2]
            wa == fnOut.out[1]
            wb == fnOut.out[2]
            inUnit == RLeq(Zero, a) /\ RLeq(a, One)
        IN  /\ (a = Zero \/ a = One) => wa = Zero
            /\ a = OneHalf => wa = One
            /\ (inUnit /\ b = RSub(One, a)) => wa = wb
            /\ inUnit => RLeq(Zero, wa)
            /\ ~inUnit => wa = Zero

C9_Witness ==
    /\ fnOut # << >>
    /\ fnOut.fn = "weight"
    /\ fnArg = <<OneHalf, One>>
    /\ fnOut.out = <<One, Zero>>

C11_DragoContract ==
    (fnOut # << >> /\ fnOut.fn = "drago") =>
        LET a  == fnArg[1]
            da == fnOut.out[1]
        IN  /\ RFinite(da) /\ RLeq(Zero, da) /\ RLeq(da, One)
            /\ a = Zero => da = Zero
            /\ RLess(a, Zero) => da = DragoToneMap(TestDragoToneMapper, Zero)

---------------------------------------------------------------------------
(* Properties of the output assembly *)

\* round(v * 255) clamped to [0, 255], halves rounded up
RoundToByte(r) ==
    LET x == RAdd(RMul(r, RInt(255)), OneHalf)
        n == x[1] \div x[2]
    IN  IF n < 0 THEN 0 ELSE IF n > 255 THEN 255 ELSE n

\* C12: every tone-mapped channel value v in [0,1] is written to the output
\* pixel as round(v * 255) clamped to [0,255], and the pixel's alpha is 255.
C12_RoundedToByte ==
    (pc = "done" /\ variant = "three" /\ err = NoErr /\ result # Nil) =>
        \A p \in Pixels(result.bounds) :
            /\ result.alpha[p] = 255
            /\ \A c \in Channels :
                   result.pix[p][c] =
                       RoundToByte(ReinhardToneMap(merged.pix[p][c]))

\* the output value of a solid exposure of the given 8-bit value on its own:
\* its radiance tone-mapped and written to the output
ToneMappedAlone(value) ==
    Quantize(ReinhardToneMap(ToRadiance(value * 257)))

Bracketed(imgs) ==
    Len(imgs) = 3 /\ {imgs[i] : i \in 1 .. 3} = {Dark, Mid, Bright}

\* C13: merging three solid exposures with 8-bit values 50, 128 and 200 and
\* tone-mapping with Reinhard yields an output whose pixels all have the same
\* value, strictly greater than the output for the value-50 exposure alone
\* and strictly less than the output for the value-200 exposure alone.
C13_SolidBracketBetween ==
    (pc = "done" /\ variant = "three" /\ Bracketed(images)) =>
        /\ err = NoErr
        /\ result # Nil
        /\ \A p \in Pixels(result.bounds) : \A c \in Channels :
               /\ result.pix[p][c] = result.pix[<<0, 0>>][1]
               /\ ToneMappedAlone(50) < result.pix[p][c]
               /\ result.pix[p][c] < ToneMappedAlone(200)

C13_Witness ==
    /\ pc = "done"
    /\ variant = "three"
    /\ images = <<Dark, Mid, Bright>>
    /\ err = NoErr
    /\ result.bounds = <<2, 2>>
    /\ result.pix[<<1, 1>>] = <<85, 85, 85>>

---------------------------------------------------------------------------
(* Properties of the processor's configuration *)

\* C14: the tone-mapper configuration (operator name and parameter values)
\* is fixed at construction: no operation after NewHDRProcessor changes the
\* configuration a subsequent Process call uses.
C14_ConfigFixedAtConstruction ==
    [][toneMapper' = toneMapper /\ params' = params]_vars

\* the parameter bag with every key the operator does not read put back to
\* what it is when that key was never supplied
WithoutUnusedKeys(v, mapper, ps) ==
    LET def == DefaultParams(v)
    IN  [k \in (DOMAIN ps \cap UsedKeys(mapper)) \cup DOMAIN def |->
            IF k \in UsedKeys(mapper) THEN Lookup(ps, k) ELSE def[k]]

\* the exposures and the operator are acceptable to Process
Acceptable(v, mapper, imgs) ==
    /\ Len(imgs) >= 2
    /\ NoNil(imgs)
    /\ \A i \in 1 .. Len(imgs) : imgs[i].bounds = imgs[1].bounds
    /\ mapper \in SupportedToneMappers(v)
    /\ (v = "weighted" => validateImageSize(mapper, imgs[1]) = NoErr)

\* C15: a parameter key the selected tone mapper does not use never makes
\* WithParams or Process fail and never changes the result of Process
\* compared with not supplying that key.
C15_UnusedKeysIgnored ==
    /\ pc = "idle" => err = NoErr
    /\ (pc = "done" /\ Acceptable(variant, toneMapper, images)) =>
           /\ err = NoErr
           /\ result = Perform(toneMapper,
                               WithoutUnusedKeys(variant, toneMapper, params),
                               merged)

C15_Witness ==
    /\ pc = "done"
    /\ toneMapper = "drago03"
    /\ "bias" \in DOMAIN params
    /\ params["light"] = OneHalf
    /\ images = <<Dark, Mid, Bright>>
    /\ err = NoErr
    /\ result.args = [k \in {"gamma"} |-> One]

---------------------------------------------------------------------------
(* Properties of the functions of exposure lists *)

HasNil(imgs) == \E i \in 1 .. Len(imgs) : imgs[i] = Nil

BoundsDiffer(imgs) ==
    \E i \in 1 .. Len(imgs) :
        imgs[i] # Nil /\ imgs[1] # Nil /\ imgs[i].bounds # imgs[1].bounds

ColorModelsDiffer(imgs) ==
    \E i \in 1 .. Len(imgs) :
        imgs[i] # Nil /\ imgs[1] # Nil /\ imgs[i].cm # imgs[1].cm

IsError(e) == e # NoErr /\ e # "panic"

\* C19: on success AlignImages returns a list of the input's length whose
\* images all have the first image's bounds; for fewer than two images, an
\* image whose bounds differ from the first, or a nil element at any index
\* it returns an error and never panics.
C19_AlignImagesContract ==
    (listOut # << >> /\ listOut.fn = "AlignImages") =>
        /\ listOut.err = NoErr =>
               /\ Len(listOut.images) = Len(listArg)
               /\ \A i \in 1 .. Len(listOut.images) :
                      listOut.images[i].bounds = listArg[1].bounds
        /\ (Len(listArg) < 2 \/ HasNil(listArg) \/ BoundsDiffer(listArg)) =>
               IsError(listOut.err)

\* C20: main's validateImageProperties returns an error (no panic, no
\* success) for a list with fewer than two images, a nil element, an image
\* whose bounds differ from the first or an image whose colour model differs
\* from the first, and nil for every other list.
C20_MainValidateContract ==
    (listOut # << >> /\ listOut.fn = "validateImageProperties") =>
        IF \/ Len(listArg) < 2
           \/ HasNil(listArg)
           \/ BoundsDiffer(listArg)
           \/ ColorModelsDiffer(listArg)
        THEN IsError(listOut.err)
        ELSE listOut.err = NoErr

---------------------------------------------------------------------------
(* Properties of the command line program *)

Has(event) == \E i \in 1 .. Len(cliTrace) : cliTrace[i] = event

\* event a was recorded, and event b after it
Before(a, b) ==
    \E i, j \in 1 .. Len(cliTrace) :
        i < j /\ cliTrace[i] = a /\ cliTrace[j] = b

Exited == cliPc = "exited"

\* three readable images of one size and colour model, a writable output
ValidRun ==
    /\ \A i \in 1 .. 3 :
          /\ ToLower(cliArgs.paths[i].ext) = ".png"
          /\ cliArgs.paths[i].file = cliArgs.paths[1].file
          /\ cliArgs.paths[i].file # Absent
          /\ cliArgs.paths[i].ext = cliArgs.paths[1].ext
    /\ cliArgs.output = OutputTo(".jpg", ".")

\* C16: with -method exposure-fusion the program produces an output image
\* from three valid images of one size and colour model without error, as
\* it does with -method tone-mapping; only another method name is rejected.
C16_ExposureFusionProducesOutput ==
    (cliMain = "part_000:160" /\ Exited /\ ValidRun) =>
        IF cliArgs.choice \in {"tone-mapping", "exposure-fusion"}
        THEN cliExit = 0 /\ Has("save") /\ Has("message")
        ELSE cliExit # 0 /\ Has("method rejected")

\* the images main loaded, as it hands them to alignment and to Process
Originals == AlignInput

\* Process has been entered, and its argument is that list
ProcessCalledWithOriginals == pc # "idle" /\ images = Originals

C18_SaveOnlyAfterSuccess ==
    /\ (Has("save") \/ Has("message")) =>
          /\ Before("args", "load")
          /\ Before("load", "process")
          /\ Before("process", "save")
          /\ Has("message") => Before("save", "message")
    /\ (Exited /\ (\/ Has("args failed") \/ Has("load failed")
                   \/ Has("process failed") \/ Has("save failed"))) =>
          cliExit # 0
    /\ (Has("args failed") \/ Has("load failed") \/ Has("process failed")) =>
          ~Has("save") /\ ~Has("save failed")
    /\ cliExit = 0 => Has("message")

C18_Witness ==
    /\ cliMain = "main.go:150"
    /\ Exited
    /\ cliExit = 0
    /\ cliTrace = <<"args", "load", "align", "process", "save", "message">>
    /\ cliOutput # Nil

\* x lies between the smallest and the largest of the values vs
BetweenMinAndMax(x, vs) ==
    /\ \E i \in 1 .. Len(vs) : RLeq(vs[i], x)
    /\ \E i \in 1 .. Len(vs) : RLeq(x, vs[i])

InUnitInterval(x) == RLeq(Zero, x) /\ RLeq(x, One)

\* every exposure is fully dark or fully saturated in the channel
AllClipped(e, c) == \A i \in 1 .. Len(e) : e[i][c] \in {0, FullScale}

\* C27 as stated: in every merge variant and at every pixel, zero-weight
\* pixels included, the merged radiance of a channel lies between the
\* minimum and the maximum of the exposures' values, and so in [0,1].
C27_MergedBetweenMinAndMax ==
    fused # << >> =>
        \A c \in Channels :
            /\ BetweenMinAndMax(fused[c], ChannelValues(expo, c))
            /\ InUnitInterval(fused[c])

\* C27 as amended: the merged radiance of a channel lies in [0,1], and
\* between the minimum and the maximum of the exposures' values unless all
\* weights are zero (mergeExposures, every exposure clipped in the
\* channel), where it is the fallback 0 whatever the exposures' values.
C27_MergedBetweenUnlessZeroWeights ==
    fused # << >> =>
        \A c \in Channels :
            /\ InUnitInterval(fused[c])
            /\ IF variant = "three" /\ AllClipped(expo, c)
               THEN fused[c] = Zero
               ELSE BetweenMinAndMax(fused[c], ChannelValues(expo, c))

\* a clipped and an unclipped channel in one pixel: red falls back to 0,
\* below its minimum, green is the one value with a weight
C27_Witness ==
    /\ variant = "three"
    /\ expo = <<Orange, White, White>>
    /\ fused # << >>
    /\ fused[1] = Zero
    /\ fused[2] = ToRadiance(Orange[2])
    /\ RLess(fused[2], One)

\* the tone mappers the tests of Process expect to work
TestedToneMappers ==
    {"reinhard05", "drago03", "linear", "logarithmic", "durand",
     "custom_reinhard05", "icam06"}

\* three non-nil exposures of one size and colour model
ThreeValid(imgs) ==
    /\ Len(imgs) = 3
    /\ NoNil(imgs)
    /\ \A i \in 1 .. 3 : /\ imgs[i].bounds = imgs[1].bounds
                         /\ imgs[i].cm = imgs[1].cm

\* C23: Process succeeds (no error, a non-nil image) for three valid
\* same-size exposures with each of reinhard05, drago03, linear,
\* logarithmic, durand, custom_reinhard05 and icam06, and returns the
\* unsupported-tone-mapper error for every other name.
C23_SevenToneMappersSucceed ==
    (Terminated /\ variant \in {"average", "weighted"} /\ ThreeValid(images))
        => /\ pc = "done"
           /\ IF toneMapper \in TestedToneMappers
              THEN err = NoErr /\ result # Nil
              ELSE err = "UnsupportedToneMapper" /\ result = Nil

\* the first image is narrower or shorter than 32 pixels
FirstTooSmall(imgs) ==
    /\ Len(imgs) >= 1
    /\ imgs[1] # Nil
    /\ (imgs[1].bounds[1] < 32 \/ imgs[1].bounds[2] < 32)

C25_NilFirstReturnsError ==
    (/\ Terminated
     /\ variant = "weighted"
     /\ Len(images) >= 2
     /\ images[1] = Nil)
        => ReturnedError /\ err = "NilImage"

---------------------------------------------------------------------------
(* imaging.LoadImages on lists of paths, imaging.SaveImage on a disk *)

MaxPaths == 3

\* what jpeg.Decode yields for a one-pixel file: a YCbCr image
ImgJ == LDR(<<1, 1>>, "YCbCr", [p \in Pixels(<<1, 1>>) |-> Third])

\* the files of the model: PNG and JPEG files under the spellings of their
\* extensions, a larger PNG, a file of another format, a missing file and
\* a PNG file that carries a JPEG extension
LoadPaths ==
    {PathTo(".png", Stored("png", ImgA)), PathTo(".PNG", Stored("png", ImgA)),
     PathTo(".png", Stored("png", ImgB)),
     PathTo(".jpg", Stored("jpeg", ImgJ)),
     PathTo(".jpeg", Stored("jpeg", ImgJ)),
     PathTo(".JPG", Stored("jpeg", ImgJ)),
     PathTo(".bmp", Stored("bmp", ImgA)), PathTo(".png", Absent),
     PathTo(".jpg", Stored("png", ImgA))}

RECURSIVE PathListsUpTo(_)
PathListsUpTo(n) ==
    IF n = 0 THEN {<< >>}
    ELSE LET shorter == PathListsUpTo(n - 1)
         IN  shorter \cup
             {Append(l, x) : l \in {m \in shorter : Len(m) = n - 1},
                             x \in LoadPaths}

InitLoad ==
    /\ variant = "average"
    /\ ProcIdle
    /\ MergeIdle
    /\ FnIdle
    /\ CliIdle
    /\ OtherIdle
    /\ listArg \in PathListsUpTo(MaxPaths)
    /\ listOut = << >>

\* images, err := imaging.LoadImages(paths...)
CallLoadImages(loader) ==
    /\ listOut = << >>
    /\ LET r == LoadImages(loader, listArg)
       IN  listOut' = [fn |-> "LoadImages", loader |-> loader,
                       err |-> r.err, images |-> r.images]
    /\ UNCHANGED <<procVars, mergeVars, fnVars, listArg, cliVars, otherVars>>

NextLoad == \E loader \in CliLoaders : CallLoadImages(loader)

SpecLoad == InitLoad /\ [][NextLoad]_vars

\* what a path can hold before SaveImage runs: nothing, or an earlier result
OldFile == Encoded("png", ImgB)

InitSave ==
    /\ variant = "average"
    /\ ProcIdle
    /\ MergeIdle
    /\ FnIdle
    /\ ListIdle
    /\ CliIdle
    /\ ObjIdle
    /\ GuiIdle
    /\ disk \in {d \in [OutputPaths -> {Absent, OldFile}] :
                   \A p \in OutputPaths : p.dir = "blocked" => d[p] = Absent}

\* err := imaging.SaveImage(img, outputPath)
CallSaveImage(img, path) ==
    /\ listOut = << >>
    /\ LET r == SaveImage(img, path, disk[path])
       IN  /\ disk' = [disk EXCEPT ![path] = r.file]
           /\ listOut' = [fn |-> "SaveImage", err |-> r.err, before |-> disk]
    /\ listArg' = <<img, path>>
    /\ UNCHANGED <<procVars, mergeVars, fnVars, cliVars, objVars, guiVars>>

\* the images handed to SaveImage
SavedImages == ImageSet \cup {ImgJ, Dark}

NextSave ==
    \E img \in SavedImages, path \in OutputPaths : CallSaveImage(img, path)

SpecSave == InitSave /\ [][NextSave]_vars

---------------------------------------------------------------------------
(* Processors as objects: each holds a name and a reference to its map *)

MaxProcs == 2
MaxCalls == 3

\* the arguments handed to WithToneMapper and WithParams
ObjNames == {"drago03", "linear"}

ObjUpdates ==
    {[k \in {"bias"} |-> RInt(2)],
     [k \in {"gamma"} |-> RInt(2)],
     [k \in {"light"} |-> OneHalf],
     [k \in {"gamma", "light"} |-> IF k = "gamma" THEN OneHalf ELSE One]}

\* a constructor that hands out the map of the processor built before
NewParamsAddressShared(h) == IF Len(h) = 0 THEN 1 ELSE Len(h)

\* params: map[string]float64{...}: the literal makes a new map
NewParamsAddress(h) == Len(h) + 1

\* the number of calls made so far on all processors
CallsMade ==
    LET RECURSIVE upTo(_)
        upTo(n) == IF n = 0 THEN 0 ELSE upTo(n - 1) + Len(procs[n].calls)
    IN  upTo(Len(procs))

InitObjects ==
    /\ variant \in {"average", "weighted"}
    /\ ProcIdle
    /\ MergeIdle
    /\ FnIdle
    /\ ListIdle
    /\ CliIdle
    /\ FsIdle
    /\ GuiIdle
    /\ procs = << >>
    /\ heap = << >>

\* p := NewHDRProcessor()
NewHDRProcessor ==
    /\ Len(procs) < MaxProcs
    /\ LET a == NewParamsAddress(heap)
       IN  /\ procs' = Append(procs, [toneMapper |-> "reinhard05",
                                      params |-> a, calls |-> << >>])
           /\ heap' = IF a > Len(heap)
                      THEN Append(heap, DefaultParams(variant))
                      ELSE heap
    /\ UNCHANGED <<procVars, mergeVars, fnVars, listVars, cliVars, fsVars,
                   guiVars>>

\* procs[i].WithToneMapper(mapper)
WithToneMapperOn(i, mapper) ==
    /\ CallsMade < MaxCalls
    /\ procs' = [procs EXCEPT
                   ![i].toneMapper = mapper,
                   ![i].calls = Append(@, [op |-> "WithToneMapper",
                                           arg |-> mapper])]
    /\ UNCHANGED <<procVars, mergeVars, fnVars, listVars, cliVars, fsVars,
                   heap, guiVars>>

\* procs[i].WithParams(new): the entries are written into the map the
\* processor refers to
WithParamsOn(i, new) ==
    /\ CallsMade < MaxCalls
    /\ heap' = [heap EXCEPT ![procs[i].params] = MergeParams(@, new)]
    /\ procs' = [procs EXCEPT
                   ![i].calls = Append(@, [op |-> "WithParams",
                                           arg |-> new])]
    /\ UNCHANGED <<procVars, mergeVars, fnVars, listVars, cliVars, fsVars,
                   guiVars>>

NextObjects ==
    \/ NewHDRProcessor
    \/ \E i \in 1 .. Len(procs), mapper \in ObjNames :
          WithToneMapperOn(i, mapper)
    \/ \E i \in 1 .. Len(procs), new \in ObjUpdates : WithParamsOn(i, new)

SpecObjects == InitObjects /\ [][NextObjects]_vars

---------------------------------------------------------------------------
(* Properties of the processor's configuration calls *)

\* the positions of the calls of one kind in a processor's history
CallsOf(calls, op) == {n \in 1 .. Len(calls) : calls[n].op = op}

Max(S) == CHOOSE x \in S : \A y \in S : y <= x

\* the name a history of calls should leave
ExpectedName(calls) ==
    LET at == CallsOf(calls, "WithToneMapper")
    IN  IF at = {} THEN "reinhard05" ELSE calls[Max(at)].arg

\* the positions of the WithParams calls that carried key k
SettersOf(calls, k) ==
    {n \in CallsOf(calls, "WithParams") : k \in DOMAIN calls[n].arg}

\* the keys a history of calls should leave, and the value of each
ExpectedKeys(v, calls) ==
    DOMAIN DefaultParams(v) \cup
    {k \in {"gamma", "light", "bias"} : SettersOf(calls, k) # {}}

ExpectedValue(v, calls, k) ==
    IF SettersOf(calls, k) = {} THEN DefaultParams(v)[k]
    ELSE calls[Max(SettersOf(calls, k))].arg[k]

\* C26: after any sequence of WithToneMapper and WithParams calls, a
\* processor's name is the argument of its last WithToneMapper (reinhard05
\* if none) and each parameter key holds the value of the last WithParams
\* that carried the key (the constructor's default if none): no call on a
\* processor changes anything else, on it or on another processor.
C26_LastCallWins ==
    \A i \in 1 .. Len(procs) :
        LET mine == heap[procs[i].params]
            hist == procs[i].calls
        IN  /\ procs[i].toneMapper = ExpectedName(hist)
            /\ DOMAIN mine = ExpectedKeys(variant, hist)
            /\ \A k \in DOMAIN mine : mine[k] = ExpectedValue(variant, hist, k)

\* one processor was reconfigured twice over, the other is as constructed
C26_Witness ==
    /\ Len(procs) = 2
    /\ Len(procs[1].calls) = 3
    /\ procs[1].calls[1].op = "WithParams"
    /\ procs[1].calls[2].op = "WithToneMapper"
    /\ procs[1].calls[3].op = "WithParams"
    /\ procs[1].calls[1].arg # procs[1].calls[3].arg
    /\ DOMAIN procs[1].calls[1].arg = {"gamma"}
    /\ "gamma" \in DOMAIN procs[1].calls[3].arg
    /\ procs[2].calls = << >>
    /\ heap[procs[2].params] = DefaultParams(variant)
    /\ heap[procs[1].params] # DefaultParams(variant)

---------------------------------------------------------------------------
(* Properties of imaging.LoadImages and imaging.SaveImage *)

\* LoadImages of image.go has returned
Loaded == listOut # << >> /\ listOut.loader = "image.go"

\* the file at the path can be opened and decoded under its extension
Loads(path) ==
    /\ ToLower(path.ext) \in {".png", ".jpg", ".jpeg"}
    /\ path.file # Absent
    /\ (path.file.codec = "png") = (ToLower(path.ext) = ".png")
    /\ path.file.codec \in {"png", "jpeg"}

\* two files hold images of the same width, height and file format
SameProperties(p, q) ==
    /\ p.file.image.bounds = q.file.image.bounds
    /\ p.file.codec = q.file.codec

\* C21: LoadImages returns one image per path, in path order, when every
\* file loads and all images share width, height and file format, and it
\* returns an error and no images when a file fails to load or an image's
\* width, height or format differs from the first's.
C21_LoadImagesContract ==
    Loaded =>
        IF /\ \A i \in 1 .. Len(listArg) : Loads(listArg[i])
           /\ \A i \in 2 .. Len(listArg) :
                 SameProperties(listArg[1], listArg[i])
        THEN /\ listOut.err = NoErr
             /\ Len(listOut.images) = Len(listArg)
             /\ \A i \in 1 .. Len(listArg) :
                   listOut.images[i] = convertToHDR(listArg[i].file.image)
        ELSE /\ listOut.err # NoErr
             /\ listOut.images = << >>

\* C29: LoadImages accepts JPEG files of identical dimensions whether their
\* extensions are spelled .jpg or .jpeg: files that load and differ in the
\* spelling or letter case of the extension alone never produce the error
\* "image properties do not match".
C29_SpellingNeverMismatch ==
    (/\ Loaded
     /\ \A i \in 1 .. Len(listArg) : Loads(listArg[i])
     /\ \A i \in 1 .. Len(listArg) : listArg[i].file = listArg[1].file)
    => listOut.err # "PropertiesMismatch"

\* C28: SaveImage called with a path whose extension is not .png, .jpg or
\* .jpeg returns an error and leaves the file system as it was: no file is
\* created or truncated at the path.
C28_UnsupportedSaveLeavesDisk ==
    (/\ listOut # << >>
     /\ ToLower(listArg[2].ext) \notin {".png", ".jpg", ".jpeg"})
    => listOut.err # NoErr /\ disk = listOut.before

---------------------------------------------------------------------------
(* The window of cmd/hdarrrr/gui.go: its callbacks and goroutines *)

MaxWorkers == 1     \* the taps on "Process": one goroutine each
MaxSelects == 1     \* the file-open callbacks that can run at one time

\* the loop of processImages sets the bar to i/100 for i = 0 .. 100; the
\* model samples it at i = 0, 100/MaxTicks, ..., 100
MaxTicks == 1

\* the goroutines: the event loop, the processImages goroutines and the
\* file-open callbacks
Ui == <<"ui", 0>>
Workers == {<<"processImages", k>> : k \in 1 .. MaxWorkers}
Selectors == {<<"callback", k>> : k \in 1 .. MaxSelects}
Goroutines == {Ui} \cup Workers \cup Selectors

Slots == 1 .. 3

\* &ImageData{Path: ..., Img: img}
ImageData(img) == [Img |-> img]

NoLocals == [index |-> 0, i |-> 0, seen |-> << >>, full |-> FALSE]

NoDialog == "none"

AllSelected(slots) == \A i \in Slots : slots[i] # Nil

\* what the file dialog hands to the callback
DialogOutcomes == {"error", "cancelled", "undecodable", "image"}

\* the package variables after main has built the window
InitGUI ==
    /\ variant = "average"
    /\ ProcIdle
    /\ MergeIdle
    /\ FnIdle
    /\ ListIdle
    /\ CliIdle
    /\ FsIdle
    /\ ObjIdle
    /\ imageData = [i \in Slots |-> Nil]
    /\ mu = Unlocked
    /\ progress = Zero
    /\ guiPc = [g \in Goroutines |-> IF g = Ui THEN "idle" ELSE "off"]
    /\ guiLocal = [g \in Goroutines |-> NoLocals]
    /\ guiShown = NoDialog
    /\ guiSaved = FALSE

GuiFrame ==
    UNCHANGED <<procVars, mergeVars, fnVars, listVars, cliVars, fsVars,
                objVars>>

\* a goroutine moves on, with new locals
GuiGoto(g, next, locals) ==
    /\ guiPc' = [guiPc EXCEPT ![g] = next]
    /\ guiLocal' = [guiLocal EXCEPT ![g] = locals]

\* dialog.ShowError, dialog.ShowInformation
Show(g, what) == guiShown' = what

\* a lock taken without waiting for the mutex to be free
LockUnguarded(g) == mu' = g

\* mu.Lock(): the caller waits until the mutex is free
Lock(g) == mu = Unlocked /\ mu' = g

\* mu.Unlock()
Unlock(g) == mu' = Unlocked

\* the callback of dialog.NewFileOpen is entered for slot `index`; it
\* returns at once on an error, a cancelled dialog or an undecodable file
CallbackBegin(s, index, outcome) ==
    /\ guiPc[s] = "off"
    /\ IF outcome = "image"
       THEN /\ GuiGoto(s, "lock", [NoLocals EXCEPT !.index = index])
            /\ UNCHANGED guiShown
       ELSE /\ UNCHANGED <<guiPc, guiLocal>>
            /\ IF outcome = "cancelled" THEN UNCHANGED guiShown
               ELSE Show(s, "error")
    /\ UNCHANGED <<imageData, mu, progress, guiSaved>>
    /\ GuiFrame

\* mu.Lock() of the callback
CallbackLock(s) ==
    /\ guiPc[s] = "lock"
    /\ Lock(s)
    /\ GuiGoto(s, "store", guiLocal[s])
    /\ UNCHANGED <<imageData, progress, guiShown, guiSaved>>
    /\ GuiFrame

\* imageData[index] = &ImageData{...}
CallbackStore(s, img) ==
    /\ guiPc[s] = "store"
    /\ imageData' = [imageData EXCEPT
                       ![guiLocal[s].index] = ImageData(img)]
    /\ GuiGoto(s, "unlock", guiLocal[s])
    /\ UNCHANGED <<mu, progress, guiShown, guiSaved>>
    /\ GuiFrame

\* mu.Unlock(), reader.Close() and the return of the callback
CallbackUnlock(s) ==
    /\ guiPc[s] = "unlock"
    /\ Unlock(s)
    /\ GuiGoto(s, "off", NoLocals)
    /\ UNCHANGED <<imageData, progress, guiShown, guiSaved>>
    /\ GuiFrame

\* the tap on "Process": go processImages(w); the event loop remembers
\* whether it launched with all three slots set
Launch(k) ==
    /\ guiPc[Ui] = "idle"
    /\ guiPc[k] = "off"
    /\ \A j \in Workers : j[2] < k[2] => guiPc[j] # "off"
    /\ guiPc' = [guiPc EXCEPT ![Ui] = "launched", ![k] = "lock"]
    /\ guiLocal' = [guiLocal EXCEPT
                      ![Ui] = [NoLocals EXCEPT !.full = AllSelected(imageData)]]
    /\ UNCHANGED <<imageData, mu, progress, guiShown, guiSaved>>
    /\ GuiFrame

\* the launching code reads progress.Value and goes back to the event loop
LauncherReads ==
    /\ guiPc[Ui] = "launched"
    /\ GuiGoto(Ui, "idle", NoLocals)
    /\ UNCHANGED <<imageData, mu, progress, guiShown, guiSaved>>
    /\ GuiFrame

\* mu.Lock(); defer mu.Unlock()
ProcessLock(k) ==
    /\ guiPc[k] = "lock"
    /\ Lock(k)
    /\ GuiGoto(k, "check", guiLocal[k])
    /\ UNCHANGED <<imageData, progress, guiShown, guiSaved>>
    /\ GuiFrame

\* for i := 0; i < 3; i++ { if imageData[i] == nil { ShowError; return } }
ProcessCheck(k) ==
    /\ guiPc[k] = "check"
    /\ IF ~AllSelected(imageData)
       THEN /\ Show(k, "Please select all 3 images")
            /\ GuiGoto(k, "unlock", guiLocal[k])
       ELSE /\ UNCHANGED guiShown
            /\ GuiGoto(k, "reset", [guiLocal[k] EXCEPT !.seen = imageData])
    /\ UNCHANGED <<imageData, mu, progress, guiSaved>>
    /\ GuiFrame

\* progress.SetValue(0)
ProcessReset(k) ==
    /\ guiPc[k] = "reset"
    /\ progress' = Zero
    /\ GuiGoto(k, "loop", [guiLocal[k] EXCEPT !.i = 0])
    /\ UNCHANGED <<imageData, mu, guiShown, guiSaved>>
    /\ GuiFrame

\* for i := 0; i <= 100; i++ { progress.SetValue(float64(i) / 100) }
ProcessTick(k) ==
    /\ guiPc[k] = "loop"
    /\ IF guiLocal[k].i <= MaxTicks
       THEN /\ progress' = Rat(guiLocal[k].i, MaxTicks)
            /\ GuiGoto(k, "loop", [guiLocal[k] EXCEPT !.i = @ + 1])
       ELSE /\ UNCHANGED progress
            /\ GuiGoto(k, "save", [guiLocal[k] EXCEPT !.i = 0])
    /\ UNCHANGED <<imageData, mu, guiShown, guiSaved>>
    /\ GuiFrame

\* err := saveImage(outputPath): os.Create fails or the file is written;
\* then the error or the success dialog
ProcessSave(k, created) ==
    /\ guiPc[k] = "save"
    /\ IF created
       THEN guiSaved' = TRUE /\ Show(k, "Success")
       ELSE UNCHANGED guiSaved /\ Show(k, "save failed")
    /\ GuiGoto(k, "unlock", guiLocal[k])
    /\ UNCHANGED <<imageData, mu, progress>>
    /\ GuiFrame

\* the deferred mu.Unlock() and the end of the goroutine
ProcessUnlock(k) ==
    /\ guiPc[k] = "unlock"
    /\ Unlock(k)
    /\ GuiGoto(k, "done", NoLocals)
    /\ UNCHANGED <<imageData, progress, guiShown, guiSaved>>
    /\ GuiFrame

\* the steps a callback takes once it is entered
CallbackStep(s) ==
    \/ CallbackLock(s)
    \/ \E img \in {ImgA, ImgB} : CallbackStore(s, img)
    \/ CallbackUnlock(s)

\* the steps of a processImages goroutine
ProcessStep(k) ==
    \/ ProcessLock(k)
    \/ ProcessCheck(k)
    \/ ProcessReset(k)
    \/ ProcessTick(k)
    \/ \E created \in BOOLEAN : ProcessSave(k, created)
    \/ ProcessUnlock(k)

NextGUI ==
    \/ \E s \in Selectors, index \in Slots, outcome \in DialogOutcomes :
          CallbackBegin(s, index, outcome)
    \/ \E s \in Selectors : CallbackStep(s)
    \/ \E k \in Workers : Launch(k)
    \/ LauncherReads
    \/ \E k \in Workers : ProcessStep(k)

\* the Go scheduler lets every goroutine that can run take its next step
SpecGUI ==
    /\ InitGUI
    /\ [][NextGUI]_vars
    /\ \A s \in Selectors : WF_vars(CallbackStep(s))
    /\ \A k \in Workers : WF_vars(ProcessStep(k))
    /\ WF_vars(LauncherReads)

---------------------------------------------------------------------------
(* Properties of the window's goroutines *)

\* C22: when processImages is launched in its own goroutine with all three
\* image slots set, the progress bar's value is 1.0 at the moment the
\* launching code next reads it.
C22_LauncherSeesFullBar ==
    [][(/\ guiPc[Ui] = "launched"
        /\ guiPc'[Ui] = "idle"
        /\ guiLocal[Ui].full)
          => progress = One]_vars

\* the positions of processImages between mu.Lock() and the deferred Unlock
InsideProcess == {"check", "reset", "loop", "save", "unlock"}

\* the slots are read and written by the holder of the mutex only, and
\* stay as processImages found them until it is done
SlotsGuarded ==
    /\ \A k \in Workers : guiPc[k] \in InsideProcess => mu = k
    /\ \A s \in Selectors : guiPc[s] \in {"store", "unlock"} => mu = s
    /\ \A k \in Workers :
          guiLocal[k].seen # << >> =>
              /\ guiPc[k] \in InsideProcess
              /\ imageData = guiLocal[k].seen
              /\ AllSelected(imageData)

\* a step that changes a slot is the store of a callback that holds the
\* mutex, and changes the slot of its index only
StoresOwnSlot ==
    imageData' # imageData =>
        \E s \in Selectors :
            /\ mu = s
            /\ guiPc[s] = "store"
            /\ \A i \in Slots \ {guiLocal[s].index} :
                  imageData'[i] = imageData[i]

\* processImages finding a slot unset shows the error and goes straight to
\* its deferred Unlock; a file is saved only after a check that passed
UnsetMeansNoSave ==
    /\ \A k \in Workers :
          (guiPc[k] = "check" /\ guiPc'[k] # "check"
           /\ ~AllSelected(imageData))
              => /\ guiShown' = "Please select all 3 images"
                 /\ guiPc'[k] = "unlock"
                 /\ guiSaved' = guiSaved
    /\ guiSaved' # guiSaved =>
          \E k \in Workers : /\ guiPc[k] = "save"
                             /\ guiLocal[k].seen = imageData
                             /\ AllSelected(imageData)
    /\ \A k \in Workers :
          (guiPc[k] = "unlock" /\ guiPc'[k] # "unlock") => guiPc'[k] = "done"

\* C30: the three image slots are read and written only while the mutex
\* is held: a callback for index i changes slot i only, no slot changes
\* between the check of processImages and its completion, processImages
\* shows an error and saves nothing when a slot is unset, and under every
\* interleaving a held mutex is released again.
C30_SlotsUnderMutex ==
    /\ []SlotsGuarded
    /\ [][StoresOwnSlot /\ UnsetMeansNoSave]_vars
    /\ (mu # Unlocked) ~> (mu = Unlocked)

\* a callback for the second slot waits for the mutex while processImages
\* is in its loop, all three slots set
C30_Witness ==
    /\ guiPc[<<"processImages", 1>>] = "loop"
    /\ mu = <<"processImages", 1>>
    /\ guiLocal[<<"processImages", 1>>].seen = imageData
    /\ \E s \in Selectors : guiPc[s] = "lock" /\ guiLocal[s].index = 2

=============================================================================
